---- MODULE Spec2Model ----
(***************************************************************************)
(* Model of main0.py: the training / evaluation loop of main with its     *)
(* best-model selection, the batch runners train and test, and the        *)
(* EarlyStopper class.                                                     *)
(*                                                                         *)
(* Real numbers are fixed-point integers in tenths (5.0 is 50); a mean is  *)
(* kept exact as the pair <<sum, count>> and compared by cross             *)
(* multiplication.  A Python name that may be unbound, or a file that may  *)
(* not exist, is a sequence of length 0 (unbound / absent) or 1.           *)
(*                                                                         *)
(* Spec runs main from its call to its end or to the exception that ends   *)
(* it; SpecRunner calls train and test directly, one loop iteration per    *)
(* step; SpecStopper calls EarlyStopper.is_continuable.                    *)
(***************************************************************************)
EXTENDS Integers, Sequences, FiniteSets, TLC

VARIABLES
    pc,                 \* position of main: start, loop, test, best, mae, done, error
    raised,             \* the exception that ended the run ("" while none)
    dataset_name, model_name, epoch, batch_size,      \* arguments of main
    len_train, len_test,                              \* rows of the two CSV files
    train_data_loader, valid_data_loader, test_data_loader,
    model,              \* the model parameters
    save_path,          \* the file at save_path
    saved_at,           \* history: the epoch whose torch.save wrote that file
    epoch_i,            \* the index range(epoch) yields for the current / next iteration
    mae,                \* the list of per-epoch rows
    best, best_test, best_mae, best_train_mae, best_epoch,
    mae_train, mae_val, mae_test, targets_test, predicts_test,
    results_csv, mae_csv,                             \* the two report files
    decisions,          \* history: per completed epoch, whether line 254 took the branch
    trained,            \* history: the parameters each epoch's train call left
    saves,              \* history: number of torch.save calls made by main
    \* a model driven by direct calls of train and test
    mode,               \* model.training: "train" or "eval"
    call,               \* the running call of train / test and its loop position
    results,            \* history: per loader, the last two values test returned
    after_train,        \* history: the parameters the last finished train call left
    calls,              \* history: the finished calls, in order
    \* an EarlyStopper object
    num_trials, trial_counter, best_rmse,
    es_file,            \* the file at self.save_path
    ret,                \* what the last is_continuable call returned
    observed,           \* history: the arguments and the object state of the last call
    streak,             \* history: consecutive calls that did not improve on best_rmse
    observations        \* history: number of is_continuable calls

mainVars == <<pc, raised, dataset_name, model_name, epoch, batch_size, len_train, len_test,
              train_data_loader, valid_data_loader, test_data_loader, model, save_path, saved_at,
              epoch_i, mae, best, best_test, best_mae, best_train_mae, best_epoch,
              mae_train, mae_val, mae_test, targets_test, predicts_test,
              results_csv, mae_csv, decisions, trained, saves>>

runVars == <<mode, call, results, after_train, calls>>

esVars == <<num_trials, trial_counter, best_rmse, es_file, ret, observed, streak, observations>>

vars == <<mainVars, runVars, esVars>>

----------------------------------------------------------------------------
(* Bounds of the explored inputs *)
MaxEpoch == 4
MaxTrainLen == 2
MaxTestLen == 2
MaxBatch == 2
MaxCalls == 3
MaxTrials == 3
MaxObservations == 5

(* Parameter values the optimizer can leave a model in.  A parameter value *)
(* w makes the model predict w + x for a row with field x (tenths).        *)
ParamSpace(name) ==
    IF name = "rnn" THEN {20, 30, 40, 50, 10000} ELSE {8, 9, 10, 12000}

Unbound == <<>>
Bound(v) == <<v>>

Abs(n) == IF n < 0 THEN -n ELSE n
Min(a, b) == IF a < b THEN a ELSE b

Less(a, b) == a[1] * b[2] < b[1] * a[2]

----------------------------------------------------------------------------
(* get_dataset / get_model *)
DatasetNames == {"movielens1M", "movielens20M", "criteo", "avazu", "fuxtower"}
ModelNames == {"dnn", "rnn", "lr", "fm", "hofm", "ffm", "fnn", "wd", "ipnn", "opnn", "dcn",
               "nfm", "ncf", "fnfm", "dfm", "xdfm", "afm", "afi", "afn"}

get_dataset_raises(name) == name \notin DatasetNames
get_model_raises(name) == name \notin ModelNames

(* the rows of the two files: fields x and target t.  Every training row is  *)
(* the same row, so a model with parameter w has the validation MAE w.       *)
TrainRow == [x |-> 1, t |-> 1]
TestRow(j) == [x |-> j, t |-> 0]
dataset_train(n) == [i \in 1..n |-> TrainRow]
dataset_test(n) == [j \in 1..n |-> TestRow(j)]

train_length(n) == (n * 9) \div 10
valid_length(n) == n - train_length(n)

Shuffled(n, p) == [i \in 1..n |-> dataset_train(n)[p[i]]]
TrainSplit(n, p) == SubSeq(Shuffled(n, p), 1, train_length(n))
ValidSplit(n, p) == SubSeq(Shuffled(n, p), train_length(n) + 1, train_length(n) + valid_length(n))

Perms(n) == {f \in [1..n -> 1..n] : \A i, j \in 1..n : i # j => f[i] # f[j]}

----------------------------------------------------------------------------
(* the batch runner in evaluation mode *)
NumBatches(loader, bs) == (Len(loader) + bs - 1) \div bs
Batch(loader, bs, k) == SubSeq(loader, (k - 1) * bs + 1, Min(k * bs, Len(loader)))

Predict(w, row) == w + row.x

batch_targets(b) == [i \in 1..Len(b) |-> b[i].t]
batch_predicts(w, b) == [i \in 1..Len(b) |-> Predict(w, b[i])]

RECURSIVE test_loop(_, _, _, _, _)
test_loop(w, loader, bs, k, acc) ==
    IF k > NumBatches(loader, bs) THEN acc
    ELSE test_loop(w, loader, bs, k + 1,
                   [targets |-> acc.targets \o batch_targets(Batch(loader, bs, k)),
                    predicts |-> acc.predicts \o batch_predicts(w, Batch(loader, bs, k))])

RECURSIVE SumAbs(_, _)
SumAbs(T, P) ==
    IF T = <<>> THEN 0 ELSE Abs(Head(T) - Head(P)) + SumAbs(Tail(T), Tail(P))

mean_absolute_error(T, P) == <<SumAbs(T, P), Len(T)>>

hstack_never_raises(list) == FALSE
hstack_raises(list) == list = <<>>

test(w, loader, bs) ==
    LET out == test_loop(w, loader, bs, 1, [targets |-> <<>>, predicts |-> <<>>])
    IN  [raises |-> hstack_raises(out.targets),
         mae |-> mean_absolute_error(out.targets, out.predicts),
         targets |-> out.targets,
         predicts |-> out.predicts]

----------------------------------------------------------------------------
(* main *)
InitBest == <<1000 * 10, 1>>
Scalar0 == [is_list |-> FALSE, v |-> <<0>>]
List(v) == [is_list |-> TRUE, v |-> v]

MainLocalsInit ==
    /\ save_path = Unbound /\ saved_at = Unbound
    /\ epoch_i = 0
    /\ mae = <<>>
    /\ best = InitBest /\ best_test = Scalar0 /\ best_mae = <<0, 1>>
    /\ best_train_mae = Unbound /\ best_epoch = Unbound
    /\ mae_train = Unbound /\ mae_val = Unbound /\ mae_test = Unbound
    /\ targets_test = Unbound /\ predicts_test = Unbound
    /\ results_csv = Unbound /\ mae_csv = Unbound
    /\ decisions = <<>> /\ trained = <<>> /\ saves = 0

Loaders == {"train", "valid", "test"}
NoCall == [fn |-> "none", loader |-> "none", k |-> 0, entry |-> 0,
           targets |-> <<>>, predicts |-> <<>>]

RunnerIdle ==
    /\ mode = "train"
    /\ call = NoCall
    /\ results = [l \in Loaders |-> <<>>]
    /\ after_train = 0
    /\ calls = <<>>

NoObservation == [rmse |-> 0, model |-> 0, best_rmse |-> 0, trial_counter |-> 0, es_file |-> <<>>]

StopperIdle ==
    /\ num_trials = 1 /\ trial_counter = 0 /\ best_rmse = 100 /\ es_file = Unbound
    /\ ret = Unbound /\ observed = NoObservation /\ streak = 0 /\ observations = 0

Init ==
    /\ RunnerIdle /\ StopperIdle
    /\ pc = "start"
    /\ raised = ""
    /\ dataset_name \in {"fuxtower", "nosuch"}
    /\ model_name \in {"rnn", "dnn", "nosuch"}
    /\ epoch \in 0..MaxEpoch
    /\ batch_size \in 1..MaxBatch
    /\ len_train \in 0..MaxTrainLen
    /\ len_test \in 0..MaxTestLen
    /\ train_data_loader = <<>> /\ valid_data_loader = <<>> /\ test_data_loader = <<>>
    /\ model = 0
    /\ MainLocalsInit

Raise(what) == pc' = "error" /\ raised' = what

(* lines 186-216: datasets, random_split, loaders, model, tracker *)
Setup ==
    /\ pc = "start"
    /\ IF get_dataset_raises(dataset_name)
       THEN /\ Raise("ValueError: unknown dataset name")
            /\ UNCHANGED <<train_data_loader, valid_data_loader, test_data_loader, model>>
       ELSE \E p \in Perms(len_train) :
               /\ train_data_loader' = TrainSplit(len_train, p)
               /\ valid_data_loader' = ValidSplit(len_train, p)
               /\ test_data_loader' = dataset_test(len_test)
               /\ IF get_model_raises(model_name)
                  THEN Raise("ValueError: unknown model name") /\ UNCHANGED model
                  ELSE /\ pc' = "loop"
                       /\ model' \in ParamSpace(model_name)
                       /\ UNCHANGED raised
    /\ UNCHANGED <<dataset_name, model_name, epoch, batch_size, len_train, len_test,
                   save_path, saved_at, epoch_i, mae, best, best_test, best_mae,
                   best_train_mae, best_epoch, mae_train, mae_val, mae_test,
                   targets_test, predicts_test, results_csv, mae_csv,
                   decisions, trained, saves,
                   runVars, esVars>>

(* range(epoch) *)
LoopStopsEarly(i, n) == i + 1 < n
LoopContinues(i, n) == i < n

(* train(model, optimizer, loader, ...): the parameter values the call can leave *)
train_leaves(w, loader, bs, name) ==
    IF NumBatches(loader, bs) = 0 THEN {w} ELSE ParamSpace(name)

(* line 223: the training pass of epoch epoch_i *)
TrainPass ==
    /\ pc = "loop"
    /\ LoopContinues(epoch_i, epoch)
    /\ model' \in train_leaves(model, train_data_loader, batch_size, model_name)
    /\ IF hstack_raises(train_data_loader)
       THEN Raise("ValueError: train") /\ UNCHANGED trained
       ELSE pc' = "test" /\ trained' = Append(trained, model') /\ UNCHANGED raised
    /\ UNCHANGED <<dataset_name, model_name, epoch, batch_size, len_train, len_test,
                   train_data_loader, valid_data_loader, test_data_loader,
                   save_path, saved_at, epoch_i, mae, best, best_test, best_mae,
                   best_train_mae, best_epoch, mae_train, mae_val, mae_test,
                   targets_test, predicts_test, results_csv, mae_csv, decisions, saves,
                   runVars, esVars>>

(* lines 237-252: the row e; its R2 and RMSE columns are appended the same    *)
(* way and are read by nothing but the final to_csv                          *)
EpochRow(i, tr, va, te) == [epoch |-> i, mae_train |-> tr, mae_val |-> va, mae_test |-> te]

(* lines 227-252: the three evaluation passes and the epoch row *)
EvalPasses ==
    /\ pc = "test"
    /\ LET r_train == test(model, train_data_loader, batch_size)
           r_val == test(model, valid_data_loader, batch_size)
           r_test == test(model, test_data_loader, batch_size)
       IN  IF r_train.raises
           THEN /\ Raise("ValueError: test(train)")
                /\ UNCHANGED <<mae_train, mae_val, mae_test, targets_test, predicts_test, mae>>
           ELSE /\ mae_train' = Bound(r_train.mae)
                /\ IF r_val.raises
                   THEN /\ Raise("ValueError: test(valid)")
                        /\ UNCHANGED <<mae_val, mae_test, targets_test, predicts_test, mae>>
                   ELSE /\ mae_val' = Bound(r_val.mae)
                        /\ IF r_test.raises
                           THEN /\ Raise("ValueError: test(test)")
                                /\ UNCHANGED <<mae_test, targets_test, predicts_test, mae>>
                           ELSE /\ mae_test' = Bound(r_test.mae)
                                /\ targets_test' = Bound(r_test.targets)
                                /\ predicts_test' = Bound(r_test.predicts)
                                /\ mae' = Append(mae, EpochRow(epoch_i, r_train.mae,
                                                               r_val.mae, r_test.mae))
                                /\ pc' = "best"
                                /\ UNCHANGED raised
    /\ UNCHANGED <<dataset_name, model_name, epoch, batch_size, len_train, len_test,
                   train_data_loader, valid_data_loader, test_data_loader, model,
                   save_path, saved_at, epoch_i, best, best_test, best_mae,
                   best_train_mae, best_epoch, results_csv, mae_csv,
                   decisions, trained, saves,
                   runVars, esVars>>

(* line 254 *)
ImprovesOrTies(val, b) == ~Less(b, val)
ImprovesAsAccuracy(val, b) == Less(b, val)
Improves(val, b) == Less(val, b)

(* lines 254-262: the best-model branch; torch.save either writes the file or *)
(* raises leaving it as it was                                                *)
Observe ==
    /\ pc = "best"
    /\ decisions' = Append(decisions, Improves(mae_val[1], best))
    /\ IF Improves(mae_val[1], best)
       THEN /\ best' = mae_val[1]
            /\ best_test' = List(predicts_test[1])
            /\ best_mae' = mae_test[1]
            /\ best_train_mae' = mae_train
            /\ best_epoch' = Bound(epoch_i)
            /\ saves' = saves + 1
            /\ \/ /\ save_path' = Bound(model)
                  /\ saved_at' = Bound(epoch_i)
                  /\ pc' = "loop"
                  /\ epoch_i' = epoch_i + 1
                  /\ UNCHANGED raised
               \/ /\ Raise("OSError: torch.save")
                  /\ UNCHANGED <<save_path, saved_at, epoch_i>>
       ELSE /\ pc' = "loop"
            /\ epoch_i' = epoch_i + 1
            /\ UNCHANGED <<best, best_test, best_mae, best_train_mae, best_epoch,
                           saves, save_path, saved_at, raised>>
    /\ UNCHANGED <<dataset_name, model_name, epoch, batch_size, len_train, len_test,
                   train_data_loader, valid_data_loader, test_data_loader, model,
                   mae, mae_train, mae_val, mae_test, targets_test, predicts_test,
                   results_csv, mae_csv, trained,
                   runVars, esVars>>

(* lines 266-267: the two-column frame *)
ResultRows(targets, predictions) ==
    [i \in 1..Len(targets) |-> [ground_truth |-> targets[i], prediction |-> predictions[i]]]

(* lines 266-268: the prediction report, named after best_epoch; to_csv       *)
(* either writes the file or raises without creating it                       *)
EmitResults ==
    /\ pc = "loop"
    /\ ~LoopContinues(epoch_i, epoch)
    /\ IF targets_test = Unbound
       THEN Raise("NameError: targets_test") /\ UNCHANGED results_csv
       ELSE IF ~best_test.is_list
       THEN Raise("ValueError: DataFrame(0)") /\ UNCHANGED results_csv
       ELSE IF best_epoch = Unbound
       THEN Raise("NameError: best_epoch") /\ UNCHANGED results_csv
       ELSE \/ /\ results_csv' = Bound([epoch |-> best_epoch[1],
                                        rows |-> ResultRows(targets_test[1], best_test.v)])
               /\ pc' = "mae"
               /\ UNCHANGED raised
            \/ Raise("OSError: to_csv(results)") /\ UNCHANGED results_csv
    /\ UNCHANGED <<dataset_name, model_name, epoch, batch_size, len_train, len_test,
                   train_data_loader, valid_data_loader, test_data_loader, model,
                   save_path, saved_at, epoch_i, mae, best, best_test, best_mae,
                   best_train_mae, best_epoch, mae_train, mae_val, mae_test,
                   targets_test, predicts_test, mae_csv, decisions, trained, saves,
                   runVars, esVars>>

(* lines 270-272: the epoch report *)
EmitMae ==
    /\ pc = "mae"
    /\ \/ mae_csv' = Bound(mae) /\ pc' = "done" /\ UNCHANGED raised
       \/ Raise("OSError: to_csv(mae)") /\ UNCHANGED mae_csv
    /\ UNCHANGED <<dataset_name, model_name, epoch, batch_size, len_train, len_test,
                   train_data_loader, valid_data_loader, test_data_loader, model,
                   save_path, saved_at, epoch_i, mae, best, best_test, best_mae,
                   best_train_mae, best_epoch, mae_train, mae_val, mae_test,
                   targets_test, predicts_test, results_csv, decisions, trained, saves,
                   runVars, esVars>>

Next == Setup \/ TrainPass \/ EvalPasses \/ Observe \/ EmitResults \/ EmitMae

Spec == Init /\ [][Next]_vars

----------------------------------------------------------------------------
(* Properties of main *)
Vals == [k \in 1..Len(mae) |-> mae[k].mae_val]

(* the lowest of the initial tracker value and the validation MAEs before epoch k *)
TrackedBefore(k) ==
    LET S == {InitBest} \cup {mae[j].mae_val : j \in 1..(k - 1)}
    IN  CHOOSE v \in S : \A u \in S : ~Less(u, v)

(* the first epoch (1-based row) whose validation MAE is the lowest of the run so far *)
FirstArgMin ==
    CHOOSE k \in 1..Len(mae) :
        /\ \A j \in 1..Len(mae) : ~Less(mae[j].mae_val, mae[k].mae_val)
        /\ \A j \in 1..(k - 1) : Less(mae[k].mae_val, mae[j].mae_val)

TestPredictionsOf(k) == test(trained[k], test_data_loader, batch_size).predicts

Won == {k \in 1..Len(decisions) : decisions[k]}
LastWon == CHOOSE k \in Won : \A j \in Won : j <= k

(* C1: an epoch becomes the new best exactly when its validation MAE is       *)
(* strictly below the value tracked so far (initially 1000); the tracker and  *)
(* the saved model are those of the last such epoch; the validation sequence  *)
(* 5.0, 3.0, 4.0, 2.0 gives the decisions true, true, false, true and leaves  *)
(* best_epoch = 3.                                                            *)
StrictImprovementPolicy ==
    /\ \A k \in 1..Len(decisions) :
         decisions[k] = Less(mae[k].mae_val, TrackedBefore(k))
    /\ best = TrackedBefore(Len(decisions) + 1)
    /\ saves = Cardinality(Won)
    /\ IF Won = {}
       THEN /\ best = InitBest /\ best_epoch = Unbound /\ best_test = Scalar0
            /\ save_path = Unbound
       ELSE /\ best = mae[LastWon].mae_val
            /\ best_epoch = Bound(LastWon - 1)
            /\ best_test = List(TestPredictionsOf(LastWon))
            /\ best_mae = mae[LastWon].mae_test
            /\ best_train_mae = Bound(mae[LastWon].mae_train)
            /\ raised # "OSError: torch.save" =>
                 save_path = Bound(trained[LastWon]) /\ saved_at = Bound(LastWon - 1)
    /\ (Len(decisions) = 4 /\ Vals = <<(<<50, 1>>), (<<30, 1>>), (<<40, 1>>), (<<20, 1>>)>>) =>
         decisions = <<TRUE, TRUE, FALSE, TRUE>> /\ best_epoch = Bound(3)

FourEpochScenarioDone ==
    /\ pc = "done"
    /\ Vals = <<(<<50, 1>>), (<<30, 1>>), (<<40, 1>>), (<<20, 1>>)>>
    /\ decisions = <<TRUE, TRUE, FALSE, TRUE>>
    /\ saved_at = Bound(3)

(* C2: once the epoch loop has finished without an error, a snapshot exists   *)
(* and it is the one of the first epoch that reached the lowest validation    *)
(* MAE of the run (stated for budgets of at least one epoch, where such an    *)
(* epoch exists).                                                             *)
SnapshotExistsAfterTraining ==
    (pc = "loop" /\ epoch >= 1 /\ ~LoopContinues(epoch_i, epoch)) =>
        /\ save_path # Unbound
        /\ saved_at = Bound(FirstArgMin - 1)

(* C3: after every completed epoch the file at save_path holds the parameters *)
(* of the epoch with the lowest validation MAE so far, and best_test,         *)
(* best_mae and best_epoch are those of that epoch.                           *)
SnapshotIsBestSoFar ==
    (pc = "loop" /\ epoch_i >= 1) =>
        /\ save_path = Bound(trained[FirstArgMin])
        /\ saved_at = Bound(FirstArgMin - 1)
        /\ best_epoch = Bound(FirstArgMin - 1)
        /\ best_test = List(TestPredictionsOf(FirstArgMin))
        /\ best_mae = mae[FirstArgMin].mae_test

(* C4: a written prediction report has one row per test example, pairing each *)
(* target with the test prediction of the epoch with the lowest validation    *)
(* MAE (the first such epoch), whose index names the file; for the validation *)
(* sequence 1.0, 0.8, 0.9 these are the predictions of epoch 1.               *)
ReportHoldsBestEpochPredictions ==
    results_csv # Unbound =>
        /\ Len(results_csv[1].rows) = len_test
        /\ results_csv[1].epoch = FirstArgMin - 1
        /\ \A i \in 1..len_test :
             /\ results_csv[1].rows[i].ground_truth = test_data_loader[i].t
             /\ results_csv[1].rows[i].prediction = TestPredictionsOf(FirstArgMin)[i]
        /\ Vals = <<(<<10, 1>>), (<<8, 1>>), (<<9, 1>>)>> =>
             /\ results_csv[1].epoch = 1
             /\ \A i \in 1..len_test :
                  results_csv[1].rows[i].prediction = TestPredictionsOf(2)[i]

ThreeEpochScenarioReported ==
    /\ pc = "done"
    /\ Vals = <<(<<10, 1>>), (<<8, 1>>), (<<9, 1>>)>>
    /\ len_test = 2
    /\ results_csv[1].epoch = 1
    /\ results_csv[1].rows[1].prediction # predicts_test[1][1]

EpochRowsState ==
    /\ Len(mae) <= epoch
    /\ \A k \in 1..Len(mae) : mae[k].epoch = k - 1
    /\ (pc \in {"mae", "done"} \/ results_csv # Unbound) => Len(mae) = epoch
    /\ mae_csv # Unbound => mae_csv[1] = mae
    /\ pc = "done" =>
         /\ mae_csv # Unbound
         /\ Len(mae_csv[1]) = epoch
         /\ \A k \in 1..epoch : mae_csv[1][k].epoch = k - 1

EpochRowsStep ==
    /\ Len(mae') \in {Len(mae), Len(mae) + 1}
    /\ SubSeq(mae', 1, Len(mae)) = mae
    /\ mae_csv # Unbound => mae_csv' = mae_csv

(* C5: rows are appended one per epoch with epoch values 0, 1, 2, ... and are *)
(* never changed; the loop is left only when the budget is reached; the epoch *)
(* report of a run without error has exactly budget rows, epochs 0..budget-1. *)
EpochReportComplete == [](EpochRowsState) /\ [][EpochRowsStep]_vars

FullEpochReportWritten ==
    /\ pc = "done"
    /\ epoch = 3
    /\ Len(mae_csv[1]) = 3
    /\ mae_csv[1][3].epoch = 2

(* C6: a run that ended with an error has left neither report file.           *)
FailedRunLeavesNoReport ==
    pc = "error" => results_csv = Unbound /\ mae_csv = Unbound

(* C7: with an empty test split no epoch row is appended, nothing is saved,   *)
(* no report is written and the run never finishes normally; unless the run   *)
(* failed before (a lookup, an empty training split, no epoch at all), the    *)
(* error is raised by the evaluation of the test split in epoch 0.            *)
EmptyTestSplitFails ==
    len_test = 0 =>
        /\ mae = <<>> /\ decisions = <<>>
        /\ save_path = Unbound /\ saves = 0
        /\ results_csv = Unbound /\ mae_csv = Unbound
        /\ pc \notin {"best", "mae", "done"}
        /\ epoch_i = 0
        /\ (/\ pc = "error"
            /\ epoch >= 1
            /\ ~get_dataset_raises(dataset_name)
            /\ ~get_model_raises(model_name)
            /\ train_data_loader # <<>>) => raised = "ValueError: test(test)"

EmptyTestSplitRaised ==
    /\ len_test = 0
    /\ pc = "error"
    /\ raised = "ValueError: test(test)"
    /\ epoch_i = 0
    /\ trained # <<>>

NoImprovementStep ==
    (pc = "best" /\ ~Less(mae_val[1], best)) =>
        UNCHANGED <<best, best_epoch, best_test, best_mae, best_train_mae,
                    save_path, saved_at, saves>>

(* C8: the best-model step of an epoch whose validation MAE is not strictly   *)
(* below best (a tie included) leaves best, best_epoch, best_test, best_mae,  *)
(* best_train_mae and the file at save_path as they were and saves nothing.   *)
NoImprovementNoChange == [][NoImprovementStep]_vars

TieLeftTrackerAlone ==
    /\ pc = "loop"
    /\ Len(decisions) >= 2
    /\ decisions[Len(decisions)] = FALSE
    /\ mae[Len(mae)].mae_val = best
    /\ best_epoch # Unbound
    /\ best_epoch[1] < Len(decisions) - 1

----------------------------------------------------------------------------
(* class EarlyStopper *)
RmseValues == {98, 99, 100, 101}

MainUnused ==
    /\ pc = "unused" /\ raised = "" /\ dataset_name = "fuxtower" /\ model_name = "rnn"
    /\ epoch = 0 /\ batch_size = 1 /\ len_train = 0 /\ len_test = 0
    /\ train_data_loader = <<>> /\ valid_data_loader = <<>> /\ test_data_loader = <<>>
    /\ model = 0
    /\ MainLocalsInit

(* __init__(num_trials, save_path) *)
InitStopper ==
    /\ MainUnused /\ RunnerIdle
    /\ num_trials \in 1..MaxTrials
    /\ trial_counter = 0
    /\ best_rmse = 100
    /\ es_file = Unbound
    /\ ret = Unbound /\ observed = NoObservation /\ streak = 0 /\ observations = 0

(* line 121 *)
TrialsLeftOffByOne(counter, n) == counter < n
TrialsLeft(counter, n) == counter + 1 < n

(* is_continuable(model, rmse) *)
is_continuable(m, rmse) ==
    /\ observations < MaxObservations
    /\ observations' = observations + 1
    /\ observed' = [rmse |-> rmse, model |-> m, best_rmse |-> best_rmse,
                    trial_counter |-> trial_counter, es_file |-> es_file]
    /\ streak' = IF rmse < best_rmse THEN 0 ELSE streak + 1
    /\ IF rmse < best_rmse
       THEN /\ best_rmse' = rmse
            /\ trial_counter' = 0
            /\ es_file' = Bound(m)
            /\ ret' = Bound(TRUE)
       ELSE IF TrialsLeft(trial_counter, num_trials)
       THEN /\ trial_counter' = trial_counter + 1
            /\ ret' = Bound(TRUE)
            /\ UNCHANGED <<best_rmse, es_file>>
       ELSE /\ ret' = Bound(FALSE)
            /\ UNCHANGED <<best_rmse, trial_counter, es_file>>
    /\ UNCHANGED <<num_trials, mainVars, runVars>>

Observation == \E m \in ParamSpace("rnn"), rmse \in RmseValues : is_continuable(m, rmse)

NextStopper == Observation

SpecStopper == InitStopper /\ [][NextStopper]_vars

(* C10: is_continuable returns False exactly on the num_trials-th or later    *)
(* consecutive observation that does not strictly improve on best_rmse; an    *)
(* improving observation resets trial_counter, records the rmse and saves the *)
(* model; any other one neither saves nor changes best_rmse; trial_counter    *)
(* stays within 0..num_trials-1 and best_rmse never increases.                *)
StopperContract ==
    /\ trial_counter \in 0..(num_trials - 1)
    /\ best_rmse <= 100
    /\ ret # Unbound =>
         /\ (ret[1] = FALSE) <=> (streak >= num_trials)
         /\ best_rmse <= observed.best_rmse
         /\ IF observed.rmse < observed.best_rmse
            THEN /\ trial_counter = 0
                 /\ best_rmse = observed.rmse
                 /\ es_file = Bound(observed.model)
                 /\ ret[1] = TRUE
            ELSE /\ best_rmse = observed.best_rmse
                 /\ es_file = observed.es_file

StopperStopsAfterPatience ==
    /\ num_trials = 3 /\ streak = 3 /\ ret = Bound(FALSE)
    /\ best_rmse < 100 /\ es_file # Unbound

----------------------------------------------------------------------------
(* train and test called directly, one loop iteration per step *)
LoaderOf(l) ==
    IF l = "train" THEN train_data_loader
    ELSE IF l = "valid" THEN valid_data_loader ELSE test_data_loader

(* model(fields): in training mode dropout may zero the output *)
forward(w, b, m) ==
    IF m = "eval" THEN {batch_predicts(w, b)}
    ELSE {batch_predicts(w, b), [i \in 1..Len(b) |-> 0]}

(* line 157: model.eval() *)
model_eval_missing(m) == m
model_eval(m) == "eval"

(* line 129: model.train() *)
model_train(m) == "train"

InitRunner ==
    /\ StopperIdle
    /\ pc = "unused" /\ raised = "" /\ dataset_name = "fuxtower"
    /\ model_name \in {"rnn", "dnn"}
    /\ epoch = 0
    /\ batch_size \in 1..MaxBatch
    /\ len_train \in 0..MaxTrainLen
    /\ len_test \in 0..MaxTestLen
    /\ \E p \in Perms(len_train) :
         /\ train_data_loader = TrainSplit(len_train, p)
         /\ valid_data_loader = ValidSplit(len_train, p)
    /\ test_data_loader = dataset_test(len_test)
    /\ model \in ParamSpace(model_name)
    /\ MainLocalsInit
    /\ mode = "train"
    /\ call = NoCall
    /\ results = [l \in Loaders |-> <<>>]
    /\ after_train = model
    /\ calls = <<>>

RunnerFrame == UNCHANGED <<pc, raised, dataset_name, model_name, epoch, batch_size,
                           len_train, len_test, train_data_loader, valid_data_loader,
                           test_data_loader, save_path, saved_at, epoch_i, mae, best,
                           best_test, best_mae, best_train_mae, best_epoch, mae_train,
                           mae_val, mae_test, targets_test, predicts_test, results_csv,
                           mae_csv, decisions, trained, saves, esVars>>

Enter(fn, l) == [fn |-> fn, loader |-> l, k |-> 1, entry |-> model,
                 targets |-> <<>>, predicts |-> <<>>]

(* lines 128-132: train(model, optimizer, train_data_loader, ...) is entered *)
CallTrain ==
    /\ call.fn = "none"
    /\ Len(calls) < MaxCalls
    /\ mode' = model_train(mode)
    /\ call' = Enter("train", "train")
    /\ results' = [l \in Loaders |-> <<>>]
    /\ UNCHANGED <<model, after_train, calls>>
    /\ RunnerFrame

(* lines 133-148: one batch of the training loop *)
TrainBatch ==
    /\ call.fn = "train"
    /\ call.k <= NumBatches(LoaderOf(call.loader), batch_size)
    /\ LET b == Batch(LoaderOf(call.loader), batch_size, call.k)
       IN  \E y \in forward(model, b, mode) :
             /\ model' \in ParamSpace(model_name)
             /\ call' = [call EXCEPT !.k = @ + 1,
                                     !.targets = @ \o batch_targets(b),
                                     !.predicts = @ \o y]
    /\ UNCHANGED <<mode, results, after_train, calls>>
    /\ RunnerFrame

(* lines 149-153: train returns, or hstack raises on an empty list *)
TrainReturn ==
    /\ call.fn = "train"
    /\ call.k > NumBatches(LoaderOf(call.loader), batch_size)
    /\ call' = NoCall
    /\ after_train' = model
    /\ calls' = Append(calls, "train")
    /\ UNCHANGED <<model, mode, results>>
    /\ RunnerFrame

(* lines 156-159: test(model, loader, device) is entered *)
CallTest ==
    /\ call.fn = "none"
    /\ Len(calls) < MaxCalls
    /\ \E l \in Loaders : call' = Enter("test", l)
    /\ mode' = model_eval(mode)
    /\ UNCHANGED <<model, results, after_train, calls>>
    /\ RunnerFrame

(* lines 160-165: one batch of the evaluation loop *)
TestBatch ==
    /\ call.fn = "test"
    /\ call.k <= NumBatches(LoaderOf(call.loader), batch_size)
    /\ LET b == Batch(LoaderOf(call.loader), batch_size, call.k)
       IN  \E y \in forward(model, b, mode) :
             call' = [call EXCEPT !.k = @ + 1,
                                  !.targets = @ \o batch_targets(b),
                                  !.predicts = @ \o y]
    /\ UNCHANGED <<model, mode, results, after_train, calls>>
    /\ RunnerFrame

LastTwo(s) == IF Len(s) > 2 THEN Tail(s) ELSE s

(* lines 167-171: test returns, or hstack raises on an empty list *)
TestReturn ==
    /\ call.fn = "test"
    /\ call.k > NumBatches(LoaderOf(call.loader), batch_size)
    /\ results' = [results EXCEPT ![call.loader] =
                     LastTwo(Append(@, [raises |-> hstack_raises(call.targets),
                                        mae |-> mean_absolute_error(call.targets, call.predicts),
                                        targets |-> call.targets,
                                        predicts |-> call.predicts]))]
    /\ call' = NoCall
    /\ calls' = Append(calls, "test")
    /\ UNCHANGED <<model, mode, after_train>>
    /\ RunnerFrame

NextRunner == CallTrain \/ TrainBatch \/ TrainReturn \/ CallTest \/ TestBatch \/ TestReturn

SpecRunner == InitRunner /\ [][NextRunner]_vars

EvaluationReadOnlyState ==
    /\ call.fn = "test" => model = call.entry /\ model = after_train
    /\ \A l \in Loaders :
         /\ Len(results[l]) = 2 => results[l][1] = results[l][2]
         /\ results[l] # <<>> =>
              results[l][Len(results[l])] = test(model, LoaderOf(l), batch_size)

ParametersChangeOnlyInTrainBatch ==
    model' # model =>
        /\ call.fn = "train"
        /\ call.k <= NumBatches(LoaderOf(call.loader), batch_size)
        /\ call'.k = call.k + 1

(* C9: test never changes the parameters: while it runs they are those the    *)
(* last train call left, two test calls on one loader with no train call      *)
(* between them return the same targets and predictions, and the parameters   *)
(* change only in a step of the training loop, which handles one batch.       *)
EvaluationReadOnly ==
    [](EvaluationReadOnlyState) /\ [][ParametersChangeOnlyInTrainBatch]_vars

EvaluatedTwiceAfterTraining ==
    /\ calls = <<"train", "test", "test">>
    /\ Len(results["test"]) = 2
    /\ Len(results["test"][2].predicts) = 2
    /\ batch_size = 1
    /\ model # 0
====
